---- MODULE Spec2Model ----
(***************************************************************************)
(* Model of the FOEDUS worker-thread runtime (thread_pimpl.cpp), of the    *)
(* impersonation handoff between a caller and a pinned worker, of the      *)
(* worker's shutdown, of the commit-conflict workload of                   *)
(* test_xct_commit_conflict.cpp, and of the startup of the engine's memory *)
(* (engine_memory.cpp).                                                    *)
(*                                                                         *)
(* Line numbers Lnn in action names and program counters refer to          *)
(* src/foedus-core/src/foedus/thread/thread_pimpl.cpp; Tnn refers to       *)
(* src/tests-core/src/foedus/xct/test_xct_commit_conflict.cpp; Enn refers  *)
(* to src/foedus-core/src/foedus/memory/engine_memory.cpp.                 *)
(***************************************************************************)
EXTENDS Integers, Sequences, FiniteSets, TLC

(***************************************************************************)
(* Bounds of the handoff model.                                            *)
(***************************************************************************)
NumWorkers == 2
NumSessions == 3

\* Bound of the shutdown runs: uninitialize_once is invoked on the first
\* NumShutdown workers only.
NumShutdown == 1

Workers == 1..NumWorkers
Sessions == 1..NumSessions

\* nullptr; "no value yet" of a task promise and of a result promise
Null == 0
NoValue == -1
Unset == "unset"

\* ErrorStack values: RET_OK, ERROR_CODE_XCT_RACE_ABORT, any other error code
RET_OK == "ok"
RACE_ABORT == "race"
OTHER_ERROR == "err"

VARIABLES
    \* ---- ThreadPimpl members, one per worker
    impersonated_,              \* std::atomic<bool> impersonated_
    impersonated_task_,         \* std::promise<ImpersonateTask*>: [gen, val]
    impersonated_task_result_,  \* std::promise<ErrorStack>: id of its shared state
    \* ---- shared states of the result promises (kept alive by the futures)
    result_state,
    \* ---- handle_tasks() locals and position, one per worker
    w_pc, functor, result,
    \* ---- the callers of ThreadPool::impersonate, one session each
    c_pc, c_target, session, task_status,
    \* ---- history of the handoff, per worker
    published, executed,
    \* ---- failed assertions and exceptions thrown (names of the places)
    failures,
    \* ---- run_test: the workload's parameters, chosen when the test starts
    nthreads, nrecords, assign, fault,
    \* ---- how many transactions the explored schedules keep open at once
    max_open,
    \* ---- the array storage "test": per record [id_, data_, version]
    storage,
    \* ---- run_test's position; per task: position, transaction, local payload,
    \*      and the status run() returned
    t_main, t_pc, xct, payload, run_result,
    \* ---- GetAllRecordsTask's output, failed EXPECT_EQs, abort by COERCE_ERROR
    payloads, expect_failed, crashed,
    \* ---- history: whether some precommit_xct has answered race-abort
    raced,
    \* ---- the tasks whose get_record or overwrite_record may answer race-abort
    body_race,
    \* ---- ThreadPimpl members used by uninitialize_once, one per worker
    raw_thread_, core_memory_, exitted_,
    \* ---- uninitialize_once: its position and what it returned, per worker;
    \*      history: how many tasks were published and run when it was invoked
    u_pc, u_result, u_seen,
    \* ---- EngineMemory: the engine's options and environment, the position of
    \*      initialize_once, its locals and what it returned
    options, em_pc, em_locals, em_result,
    \* ---- EngineMemory members
    node_memories_, global_page_resolver_

pool_vars == <<impersonated_, impersonated_task_, impersonated_task_result_,
               result_state, w_pc, functor, result, c_pc, c_target, session,
               task_status, published, executed, failures>>

xct_vars == <<nthreads, nrecords, assign, fault, max_open, storage, t_main, t_pc, xct,
              payload, run_result, payloads, expect_failed, crashed, raced, body_race>>

uninit_vars == <<raw_thread_, core_memory_, exitted_, u_pc, u_result, u_seen>>

mem_vars == <<options, em_pc, em_locals, em_result, node_memories_,
              global_page_resolver_>>

vars == <<pool_vars, xct_vars, uninit_vars, mem_vars>>

\* Shared state of the promise try_impersonate installs for session s (line 69).
\* The shared states 1..NumWorkers are those of the default-constructed members.
FreshResultSlot(s) == NumWorkers + s
ResultSlots == 1..(NumWorkers + NumSessions)

\* What the tasks' run() will return: RET_OK and an error alternate, either first,
\* so that consecutive tasks of one worker return different statuses.
TaskStatuses ==
    {[s \in Sessions |-> IF s % 2 = first THEN RET_OK ELSE OTHER_ERROR] : first \in {0, 1}}

\* uninitialize_once has not been invoked on the worker.
NotInvoked == [pub |-> -1, exe |-> -1]

NoSession == [thread_ |-> Null, result_future_ |-> Null, valid |-> FALSE,
              invalid_cause_ |-> RET_OK, got |-> Unset]

InitPool ==
    /\ impersonated_ = [w \in Workers |-> FALSE]
    /\ impersonated_task_ = [w \in Workers |-> [gen |-> 0, val |-> NoValue]]
    /\ impersonated_task_result_ = [w \in Workers |-> w]
    /\ result_state = [r \in ResultSlots |-> Unset]
    /\ w_pc = [w \in Workers |-> "L44"]
    /\ functor = [w \in Workers |-> Null]
    /\ result = [w \in Workers |-> Unset]
    /\ c_pc = [s \in Sessions |-> "start"]
    /\ c_target = [s \in Sessions |-> Null]
    /\ session = [s \in Sessions |-> NoSession]
    /\ task_status \in TaskStatuses
    /\ published = [w \in Workers |-> <<>>]
    /\ executed = [w \in Workers |-> <<>>]
    /\ failures = {}
    /\ raw_thread_ = [w \in Workers |-> TRUE]
    /\ core_memory_ = [w \in Workers |-> TRUE]
    /\ exitted_ = [w \in Workers |-> FALSE]
    /\ u_pc = [w \in Workers |-> "none"]
    /\ u_result = [w \in Workers |-> Unset]
    /\ u_seen = [w \in Workers |-> NotInvoked]

----------------------------------------------------------------------------
(***************************************************************************)
(* ThreadPimpl::handle_tasks, lines 38-62.                                 *)
(***************************************************************************)

\* Lines 44-45: get_future() and the blocking get() on the inbox.
HandleTasks_L45(w) ==
    /\ w_pc[w] = "L44"
    /\ impersonated_task_[w].val # NoValue
    /\ functor' = [functor EXCEPT ![w] = impersonated_task_[w].val]
    /\ w_pc' = [w_pc EXCEPT ![w] = "L46"]
    /\ UNCHANGED <<impersonated_, impersonated_task_, impersonated_task_result_,
                   result_state, result, c_pc, c_target, session, task_status,
                   published, executed, failures,
                   xct_vars, uninit_vars, mem_vars>>

\* Line 46 left out: the next round uses the promise/future pair again.
HandleTasks_L46_NoReset(w) ==
    /\ w_pc[w] = "L46"
    /\ w_pc' = [w_pc EXCEPT ![w] = "L47"]
    /\ UNCHANGED <<impersonated_, impersonated_task_, impersonated_task_result_,
                   result_state, functor, result, c_pc, c_target, session,
                   task_status, published, executed, failures, xct_vars,
                   uninit_vars, mem_vars>>

\* Line 46: reset the promise/future pair.
HandleTasks_L46(w) ==
    /\ w_pc[w] = "L46"
    /\ impersonated_task_' = [impersonated_task_ EXCEPT
            ![w] = [gen |-> @.gen + 1, val |-> NoValue]]
    /\ w_pc' = [w_pc EXCEPT ![w] = "L47"]
    /\ UNCHANGED <<impersonated_, impersonated_task_result_, result_state,
                   functor, result, c_pc, c_target, session, task_status,
                   published, executed, failures,
                   xct_vars, uninit_vars, mem_vars>>

\* Lines 47-48 and 54-56: the branch on functor and assert(impersonated_).
HandleTasks_L47(w) ==
    /\ w_pc[w] = "L47"
    /\ IF functor[w] # Null
       THEN /\ w_pc' = [w_pc EXCEPT ![w] = "L50"]
            /\ failures' = IF impersonated_[w] THEN failures
                           ELSE failures \cup {"assert_L48"}
       ELSE /\ w_pc' = [w_pc EXCEPT ![w] = "L59"]
            /\ UNCHANGED failures
    /\ UNCHANGED <<impersonated_, impersonated_task_, impersonated_task_result_,
                   result_state, functor, result, c_pc, c_target, session,
                   task_status, published, executed,
                   xct_vars, uninit_vars, mem_vars>>

\* What functor->run(holder_) returns for the task of session s.
RunTask(s) == task_status[s]

\* Line 52 moved before line 51: the flag is cleared as soon as run() returns.
HandleTasks_L50_ClearEarly(w) ==
    /\ w_pc[w] = "L50"
    /\ result' = [result EXCEPT ![w] = RunTask(functor[w])]
    /\ executed' = [executed EXCEPT ![w] = Append(@, functor[w])]
    /\ impersonated_' = [impersonated_ EXCEPT ![w] = FALSE]
    /\ w_pc' = [w_pc EXCEPT ![w] = "L51"]
    /\ UNCHANGED <<impersonated_task_, impersonated_task_result_, result_state,
                   functor, c_pc, c_target, session, task_status, published,
                   failures, xct_vars, uninit_vars, mem_vars>>

\* Line 50: ErrorStack result = functor->run(holder_).
HandleTasks_L50(w) ==
    /\ w_pc[w] = "L50"
    /\ result' = [result EXCEPT ![w] = RunTask(functor[w])]
    /\ executed' = [executed EXCEPT ![w] = Append(@, functor[w])]
    /\ w_pc' = [w_pc EXCEPT ![w] = "L51"]
    /\ UNCHANGED <<impersonated_, impersonated_task_, impersonated_task_result_,
                   result_state, functor, c_pc, c_target, session, task_status,
                   published, failures,
                   xct_vars, uninit_vars, mem_vars>>

\* Line 51 left out: the result never reaches the outbox.
HandleTasks_L51_Skip(w) ==
    /\ w_pc[w] = "L51"
    /\ w_pc' = [w_pc EXCEPT ![w] = "L52"]
    /\ UNCHANGED <<impersonated_, impersonated_task_, impersonated_task_result_,
                   result_state, functor, result, c_pc, c_target, session,
                   task_status, published, executed, failures, xct_vars, uninit_vars, mem_vars>>

\* Line 51: impersonated_task_result_.set_value(result).
\* set_value on a satisfied shared state throws promise_already_satisfied.
HandleTasks_L51(w) ==
    /\ w_pc[w] = "L51"
    /\ LET slot == impersonated_task_result_[w] IN
       IF result_state[slot] = Unset
       THEN /\ result_state' = [result_state EXCEPT ![slot] = result[w]]
            /\ UNCHANGED failures
       ELSE /\ failures' = failures \cup {"throw_L51"}
            /\ UNCHANGED result_state
    /\ w_pc' = [w_pc EXCEPT ![w] = "L52"]
    /\ UNCHANGED <<impersonated_, impersonated_task_, impersonated_task_result_,
                   functor, result, c_pc, c_target, session, task_status,
                   published, executed,
                   xct_vars, uninit_vars, mem_vars>>

\* Line 52 left out: the worker forgets to clear the flag.
HandleTasks_L52_NoClear(w) ==
    /\ w_pc[w] = "L52"
    /\ functor' = [functor EXCEPT ![w] = Null]
    /\ result' = [result EXCEPT ![w] = Unset]
    /\ w_pc' = [w_pc EXCEPT ![w] = "L44"]
    /\ UNCHANGED <<impersonated_, impersonated_task_, impersonated_task_result_,
                   result_state, c_pc, c_target, session, task_status, published,
                   executed, failures, xct_vars, uninit_vars, mem_vars>>

\* Line 52: impersonated_ = false; the loop body's locals go out of scope.
HandleTasks_L52(w) ==
    /\ w_pc[w] = "L52"
    /\ impersonated_' = [impersonated_ EXCEPT ![w] = FALSE]
    /\ functor' = [functor EXCEPT ![w] = Null]
    /\ result' = [result EXCEPT ![w] = Unset]
    /\ w_pc' = [w_pc EXCEPT ![w] = "L44"]
    /\ UNCHANGED <<impersonated_task_, impersonated_task_result_, result_state,
                   c_pc, c_target, session, task_status, published, executed,
                   failures,
                   xct_vars, uninit_vars, mem_vars>>

HandleTasks(w) ==
    \/ HandleTasks_L45(w)
    \/ HandleTasks_L46(w)
    \/ HandleTasks_L47(w)
    \/ HandleTasks_L50(w)
    \/ HandleTasks_L51(w)
    \/ HandleTasks_L52(w)

----------------------------------------------------------------------------
(***************************************************************************)
(* ThreadPool::impersonate (its scan over the workers) and                 *)
(* ThreadPimpl::try_impersonate, lines 64-80.                              *)
(***************************************************************************)

\* ThreadPool::impersonate: start the scan at the first worker.
Impersonate_Begin(s) ==
    /\ c_pc[s] = "start"
    /\ c_target' = [c_target EXCEPT ![s] = 1]
    /\ c_pc' = [c_pc EXCEPT ![s] = "L66_load"]
    /\ UNCHANGED <<impersonated_, impersonated_task_, impersonated_task_result_,
                   result_state, w_pc, functor, result, session, task_status,
                   published, executed, failures,
                   xct_vars, uninit_vars, mem_vars>>

\* Lines 75-79 followed by the pool's scan: try_impersonate returned false;
\* go to the next worker, or give up with an invalid session.
AfterFailure(s) ==
    IF c_target[s] < NumWorkers
    THEN /\ c_target' = [c_target EXCEPT ![s] = @ + 1]
         /\ c_pc' = [c_pc EXCEPT ![s] = "L66_load"]
         /\ UNCHANGED session
    ELSE /\ c_target' = [c_target EXCEPT ![s] = Null]
         /\ c_pc' = [c_pc EXCEPT ![s] = "invalid"]
         /\ session' = [session EXCEPT ![s].valid = FALSE,
                                       ![s].invalid_cause_ = OTHER_ERROR]

\* A plain store in place of the compare-and-set: it never loses.
CasSucceeds_Store(w) == TRUE

\* The compare-and-set of line 66 succeeds iff the flag still holds cas_tmp.
CasSucceeds(w) == impersonated_[w] = FALSE

\* Line 66 waiting for the worker to become idle instead of giving up.
TryImpersonate_L66_load_Blocking(s) ==
    /\ c_pc[s] = "L66_load"
    /\ ~impersonated_[c_target[s]]
    /\ c_pc' = [c_pc EXCEPT ![s] = "L66_cas"]
    /\ UNCHANGED <<impersonated_, impersonated_task_, impersonated_task_result_,
                   result_state, w_pc, functor, result, c_target, session,
                   task_status, published, executed, failures, xct_vars, uninit_vars, mem_vars>>

\* Line 66, left operand: the plain load !impersonated_.
TryImpersonate_L66_load(s) ==
    /\ c_pc[s] = "L66_load"
    /\ IF impersonated_[c_target[s]]
       THEN AfterFailure(s)
       ELSE /\ c_pc' = [c_pc EXCEPT ![s] = "L66_cas"]
            /\ UNCHANGED <<c_target, session>>
    /\ UNCHANGED <<impersonated_, impersonated_task_, impersonated_task_result_,
                   result_state, w_pc, functor, result, task_status, published,
                   executed, failures,
                   xct_vars, uninit_vars, mem_vars>>

\* The compare-and-set with false as the value to store: the caller goes on
\* as the winner but the flag stays false.
TryImpersonate_L66_cas_NoSet(s) ==
    /\ c_pc[s] = "L66_cas"
    /\ IF CasSucceeds(c_target[s])
       THEN /\ c_pc' = [c_pc EXCEPT ![s] = "L69"]
            /\ UNCHANGED <<c_target, session>>
       ELSE AfterFailure(s)
    /\ UNCHANGED <<impersonated_, impersonated_task_, impersonated_task_result_,
                   result_state, w_pc, functor, result, task_status, published,
                   executed, failures, xct_vars, uninit_vars, mem_vars>>

\* Line 66, right operand: atomic_compare_exchange_strong(&impersonated_, false, true).
TryImpersonate_L66_cas(s) ==
    /\ c_pc[s] = "L66_cas"
    /\ IF CasSucceeds(c_target[s])
       THEN /\ impersonated_' = [impersonated_ EXCEPT ![c_target[s]] = TRUE]
            /\ c_pc' = [c_pc EXCEPT ![s] = "L69"]
            /\ UNCHANGED <<c_target, session>>
       ELSE /\ AfterFailure(s)
            /\ UNCHANGED impersonated_
    /\ UNCHANGED <<impersonated_task_, impersonated_task_result_, result_state,
                   w_pc, functor, result, task_status, published, executed,
                   failures,
                   xct_vars, uninit_vars, mem_vars>>

\* Line 69 left out: the session gets the future of the promise already there.
TryImpersonate_L69_Reuse(s) ==
    /\ c_pc[s] = "L69"
    /\ c_pc' = [c_pc EXCEPT ![s] = "L70"]
    /\ UNCHANGED <<impersonated_, impersonated_task_, impersonated_task_result_,
                   result_state, w_pc, functor, result, c_target, session,
                   task_status, published, executed, failures, xct_vars, uninit_vars, mem_vars>>

\* Line 69: impersonated_task_result_ = std::promise<ErrorStack>().
TryImpersonate_L69(s) ==
    /\ c_pc[s] = "L69"
    /\ impersonated_task_result_' =
            [impersonated_task_result_ EXCEPT ![c_target[s]] = FreshResultSlot(s)]
    /\ c_pc' = [c_pc EXCEPT ![s] = "L70"]
    /\ UNCHANGED <<impersonated_, impersonated_task_, result_state, w_pc,
                   functor, result, c_target, session, task_status, published,
                   executed, failures,
                   xct_vars, uninit_vars, mem_vars>>

\* Lines 70-72: bind the session to the worker and to the promise's future.
TryImpersonate_L70(s) ==
    /\ c_pc[s] = "L70"
    /\ session' = [session EXCEPT
            ![s].thread_ = c_target[s],
            ![s].result_future_ = impersonated_task_result_[c_target[s]]]
    /\ c_pc' = [c_pc EXCEPT ![s] = "L73"]
    /\ UNCHANGED <<impersonated_, impersonated_task_, impersonated_task_result_,
                   result_state, w_pc, functor, result, c_target, task_status,
                   published, executed, failures,
                   xct_vars, uninit_vars, mem_vars>>

\* Lines 73-74: impersonated_task_.set_value(session->task_); return true.
\* The pool then hands the valid session to the caller.
TryImpersonate_L73(s) ==
    /\ c_pc[s] = "L73"
    /\ LET w == c_target[s] IN
       IF impersonated_task_[w].val = NoValue
       THEN /\ impersonated_task_' = [impersonated_task_ EXCEPT ![w].val = s]
            /\ published' = [published EXCEPT ![w] = Append(@, s)]
            /\ session' = [session EXCEPT ![s].valid = TRUE]
            /\ c_pc' = [c_pc EXCEPT ![s] = "valid"]
            /\ UNCHANGED failures
       ELSE /\ failures' = failures \cup {"throw_L73"}
            /\ c_pc' = [c_pc EXCEPT ![s] = "thrown"]
            /\ UNCHANGED <<impersonated_task_, published, session>>
    /\ UNCHANGED <<impersonated_, impersonated_task_result_, result_state, w_pc,
                   functor, result, c_target, task_status, executed,
                   xct_vars, uninit_vars, mem_vars>>

\* ImpersonateSession::get_result: block on the shared future, then read it.
GetResult(s) ==
    /\ c_pc[s] = "valid"
    /\ result_state[session[s].result_future_] # Unset
    /\ session' = [session EXCEPT ![s].got = result_state[session[s].result_future_]]
    /\ c_pc' = [c_pc EXCEPT ![s] = "done"]
    /\ UNCHANGED <<impersonated_, impersonated_task_, impersonated_task_result_,
                   result_state, w_pc, functor, result, c_target, task_status,
                   published, executed, failures,
                   xct_vars, uninit_vars, mem_vars>>

Caller(s) ==
    \/ Impersonate_Begin(s)
    \/ TryImpersonate_L66_load(s)
    \/ TryImpersonate_L66_cas(s)
    \/ TryImpersonate_L69(s)
    \/ TryImpersonate_L70(s)
    \/ TryImpersonate_L73(s)
    \/ GetResult(s)

----------------------------------------------------------------------------
(***************************************************************************)
(* ThreadPimpl::uninitialize_once, lines 27-36, and the end of             *)
(* handle_tasks, lines 59-60.                                              *)
(***************************************************************************)

\* Lines 59-60: exitted_ = true, the release fence, and the thread ends.
HandleTasks_L59(w) ==
    /\ w_pc[w] = "L59"
    /\ exitted_' = [exitted_ EXCEPT ![w] = TRUE]
    /\ w_pc' = [w_pc EXCEPT ![w] = "exited"]
    /\ UNCHANGED <<impersonated_, impersonated_task_, impersonated_task_result_,
                   result_state, functor, result, c_pc, c_target, session,
                   task_status, published, executed, failures,
                   raw_thread_, core_memory_, u_pc, u_result, u_seen,
                   xct_vars, mem_vars>>

\* Line 28: uninitialize_once is invoked; if (raw_thread_).
UninitializeOnce_L28(w) ==
    /\ u_pc[w] = "none"
    /\ u_pc' = [u_pc EXCEPT ![w] = IF raw_thread_[w] THEN "L29" ELSE "L34"]
    /\ u_seen' = [u_seen EXCEPT ![w] = [pub |-> Len(published[w]),
                                        exe |-> Len(executed[w])]]
    /\ UNCHANGED <<pool_vars, raw_thread_, core_memory_, exitted_, u_result,
                   xct_vars, mem_vars>>

\* Line 29: impersonated_task_.set_value(nullptr), the signal to exit.
\* set_value on a promise that already holds a value throws
\* promise_already_satisfied, which leaves uninitialize_once.
UninitializeOnce_L29(w) ==
    /\ u_pc[w] = "L29"
    /\ IF impersonated_task_[w].val = NoValue
       THEN /\ impersonated_task_' = [impersonated_task_ EXCEPT ![w].val = Null]
            /\ u_pc' = [u_pc EXCEPT ![w] = "L30"]
            /\ UNCHANGED failures
       ELSE /\ failures' = failures \cup {"throw_L29"}
            /\ u_pc' = [u_pc EXCEPT ![w] = "thrown"]
            /\ UNCHANGED impersonated_task_
    /\ UNCHANGED <<impersonated_, impersonated_task_result_, result_state, w_pc,
                   functor, result, c_pc, c_target, session, task_status,
                   published, executed,
                   raw_thread_, core_memory_, exitted_, u_result, u_seen,
                   xct_vars, mem_vars>>

\* Line 30 left out: the thread is deleted without waiting for its end.
UninitializeOnce_L30_NoJoin(w) ==
    /\ u_pc[w] = "L30"
    /\ raw_thread_' = [raw_thread_ EXCEPT ![w] = FALSE]
    /\ u_pc' = [u_pc EXCEPT ![w] = "L34"]
    /\ UNCHANGED <<pool_vars, core_memory_, exitted_, u_result, u_seen,
                   xct_vars, mem_vars>>

\* Lines 30-32: raw_thread_->join() returns when the thread has ended;
\* delete raw_thread_; raw_thread_ = nullptr.
UninitializeOnce_L30(w) ==
    /\ u_pc[w] = "L30"
    /\ w_pc[w] = "exited"
    /\ raw_thread_' = [raw_thread_ EXCEPT ![w] = FALSE]
    /\ u_pc' = [u_pc EXCEPT ![w] = "L34"]
    /\ UNCHANGED <<pool_vars, core_memory_, exitted_, u_result, u_seen,
                   xct_vars, mem_vars>>

\* Lines 34-35: core_memory_ = nullptr; return RET_OK.
UninitializeOnce_L34(w) ==
    /\ u_pc[w] = "L34"
    /\ core_memory_' = [core_memory_ EXCEPT ![w] = FALSE]
    /\ u_result' = [u_result EXCEPT ![w] = RET_OK]
    /\ u_pc' = [u_pc EXCEPT ![w] = "returned"]
    /\ UNCHANGED <<pool_vars, raw_thread_, exitted_, u_seen, xct_vars, mem_vars>>

UninitializeOnce(w) ==
    \/ UninitializeOnce_L28(w)
    \/ UninitializeOnce_L29(w)
    \/ UninitializeOnce_L30(w)
    \/ UninitializeOnce_L34(w)

----------------------------------------------------------------------------
(***************************************************************************)
(* The commit-conflict workload: run_test and its three tasks.             *)
(***************************************************************************)

\* const int RECORDS, const int THREADS
RECORDS == 10
THREADS == 10

\* Bound on the number of tasks (and records) of a run with a free assignment.
MaxThreads == 3

\* Bound on the transactions open at once in the schedules explored for the
\* ten-task HeavyConflict run.
MaxOpen == 2

Tasks == 0..(nthreads - 1)
Records == 0..(nrecords - 1)

\* The amount with the addition bound tighter than the product.
Amount_Precedence(i) == i * (20 + 4)

\* The amount computed from a task index counted from one.
Amount_OneBased(i) == (i + 1) * 20 + 4

\* i * 20 + 4, the amount run_test gives task i (line 133)
Amount(i) == i * 20 + 4

\* payload.data_ += amount_ (line 89)
AddAmount(p, i) == [p EXCEPT !.data_ = @ + Amount(i)]

\* An inactive transaction of a worker (current_xct_); assert_failed records
\* a failed assertion of activate_xct or deactivate_xct.
InactiveXct == [active |-> FALSE, read_set |-> {}, write_set |-> {},
                assert_failed |-> FALSE]

\* ThreadPimpl::activate_xct, lines 82-85: assert(!is_active()); activate.
ActivateXct(x) ==
    [active |-> TRUE, read_set |-> {}, write_set |-> {},
     assert_failed |-> x.assert_failed \/ x.active]

\* ThreadPimpl::deactivate_xct, lines 87-90: assert(is_active()); deactivate.
DeactivateXct(x) ==
    [active |-> FALSE, read_set |-> {}, write_set |-> {},
     assert_failed |-> x.assert_failed \/ ~x.active]

\* "Payload payload;" before get_record has filled it
NoPayload == [id_ |-> -1, data_ |-> -1]

\* ---- the transaction manager and the array storage
\* XctManager::begin_xct: inactive -> active; an error if already active.
BeginXct(x) ==
    IF x.active THEN [err |-> OTHER_ERROR, xct |-> x]
    ELSE [err |-> RET_OK, xct |-> ActivateXct(x)]

\* XctManager::abort_xct: discards the in-flight transaction.
AbortXct(x) == DeactivateXct(x)

\* ArrayStorage::get_record: the current logical value; the read joins the read set.
GetRecord(x, offset) ==
    [xct |-> [x EXCEPT !.read_set = @ \cup {<<offset, storage[offset].version>>}],
     out |-> [id_ |-> storage[offset].id_, data_ |-> storage[offset].data_]]

\* ArrayStorage::overwrite_record: the write joins the write set.
OverwriteRecord(x, offset, p) ==
    [x EXCEPT !.write_set = {wr \in @ : wr[1] # offset} \cup {<<offset, p>>}]

\* Commit-time validation: no record of the read set has been committed since.
Validates(x) == \A rd \in x.read_set : storage[rd[1]].version = rd[2]

\* The storage after a validated transaction's writes are published.
ApplyWrites(x) ==
    [r \in DOMAIN storage |->
        IF \E wr \in x.write_set : wr[1] = r
        THEN LET wr == CHOOSE wr \in x.write_set : wr[1] = r IN
             [id_ |-> wr[2].id_, data_ |-> wr[2].data_,
              version |-> storage[r].version + 1]
        ELSE storage[r]]

\* ---- TestTask::run, lines 63-80
\* A race-abort taken for success: the loop is left without a commit.
RetryDecision_IgnoreRace(error_stack) ==
    IF error_stack \in {RET_OK, RACE_ABORT} THEN "break" ELSE "fatal"

\* A race-abort handed to the caller (CHECK_ERROR) instead of retried.
RetryDecision_ReturnRace(error_stack) ==
    IF error_stack = RET_OK THEN "break"
    ELSE IF error_stack = RACE_ABORT THEN "return"
    ELSE "fatal"

\* Every error fatal: a race-abort is not retried.
RetryDecision_RaceFatal(error_stack) ==
    IF error_stack = RET_OK THEN "break" ELSE "fatal"

\* What run() does with try_transaction's ErrorStack (lines 68-77).
RetryDecision(error_stack) ==
    IF error_stack = RET_OK THEN "break"
    ELSE IF error_stack = RACE_ABORT THEN "retry"
    ELSE "fatal"

\* Lines 72-74 without the test of is_running_xct: abort_xct in any case.
AbortIfRunning_Always(x) == AbortXct(x)

\* Lines 72-74: abort the transaction if one is still running, then loop.
AbortIfRunning(x) == IF x.active THEN AbortXct(x) ELSE x

\* The rest of one pass of the loop of run(), once try_transaction has
\* returned error_stack with the worker's transaction left as x.
Driver(i, error_stack, x) ==
    LET d == RetryDecision(error_stack) IN
    /\ payload' = [payload EXCEPT ![i] = NoPayload]
    /\ CASE d = "break" ->
              /\ t_pc' = [t_pc EXCEPT ![i] = "returned"]
              /\ run_result' = [run_result EXCEPT ![i] = RET_OK]
              /\ xct' = [xct EXCEPT ![i] = x]
              /\ UNCHANGED crashed
         [] d = "retry" ->
              /\ t_pc' = [t_pc EXCEPT ![i] = "T67"]
              /\ xct' = [xct EXCEPT ![i] = AbortIfRunning(x)]
              /\ UNCHANGED <<run_result, crashed>>
         [] d = "fatal" ->
              /\ t_pc' = [t_pc EXCEPT ![i] = "aborted"]
              /\ crashed' = TRUE
              /\ xct' = [xct EXCEPT ![i] = x]
              /\ UNCHANGED run_result
         [] OTHER ->
              /\ t_pc' = [t_pc EXCEPT ![i] = "returned"]
              /\ run_result' = [run_result EXCEPT ![i] = error_stack]
              /\ xct' = [xct EXCEPT ![i] = x]
              /\ UNCHANGED crashed

\* try_transaction, lines 84-90: begin_xct, get_record, the addition and
\* overwrite_record; an error of any of them returns to run() at once
\* (CHECK_ERROR), with the transaction still active. For the tasks of
\* body_race, get_record and overwrite_record may answer race-abort.
TryTransaction_T84(i) ==
    /\ i \in Tasks
    /\ ~crashed
    /\ t_pc[i] = "T67"
    /\ Cardinality({j \in Tasks : t_pc[j] = "T93"}) < max_open
    /\ LET b == BeginXct(xct[i]) IN
       IF b.err # RET_OK
       THEN /\ Driver(i, b.err, b.xct)
            /\ UNCHANGED <<storage, raced, expect_failed>>
       ELSE IF i \in fault
       THEN /\ Driver(i, OTHER_ERROR, b.xct)
            /\ UNCHANGED <<storage, raced, expect_failed>>
       ELSE LET g == GetRecord(b.xct, assign[i])
                p == AddAmount(g.out, i) IN
            \/ /\ expect_failed' = (expect_failed \/ g.out.id_ # assign[i])
               /\ payload' = [payload EXCEPT ![i] = p]
               /\ xct' = [xct EXCEPT ![i] = OverwriteRecord(g.xct, assign[i], p)]
               /\ t_pc' = [t_pc EXCEPT ![i] = "T93"]
               /\ UNCHANGED <<storage, raced, run_result, crashed>>
            \/ /\ i \in body_race      \* get_record answers race-abort
               /\ Driver(i, RACE_ABORT, b.xct)
               /\ raced' = TRUE
               /\ UNCHANGED <<storage, expect_failed>>
            \/ /\ i \in body_race      \* overwrite_record answers race-abort
               /\ expect_failed' = (expect_failed \/ g.out.id_ # assign[i])
               /\ Driver(i, RACE_ABORT, g.xct)
               /\ raced' = TRUE
               /\ UNCHANGED storage
    /\ UNCHANGED <<pool_vars, uninit_vars, mem_vars, body_race,
                   nthreads, nrecords, assign, fault, max_open, t_main, payloads>>

\* try_transaction, lines 92-94: precommit_xct, which validates and either
\* publishes the writes or answers race-abort; then the rest of run()'s pass.
TryTransaction_T93(i) ==
    /\ i \in Tasks
    /\ ~crashed
    /\ t_pc[i] = "T93"
    /\ IF Validates(xct[i])
       THEN /\ storage' = ApplyWrites(xct[i])
            /\ Driver(i, RET_OK, DeactivateXct(xct[i]))
            /\ UNCHANGED raced
       ELSE /\ Driver(i, RACE_ABORT, DeactivateXct(xct[i]))
            /\ raced' = TRUE
            /\ UNCHANGED storage
    /\ UNCHANGED <<pool_vars, uninit_vars, mem_vars, body_race,
                   nthreads, nrecords, assign, fault, max_open, t_main, payloads,
                   expect_failed>>

\* ---- run_test, lines 123-158
\* Line 126: InitTask creates the array and commits id_ = i, data_ = 0.
RunTest_T126 ==
    /\ t_main = "T126"
    /\ storage' = [r \in Records |-> [id_ |-> r, data_ |-> 0, version |-> 1]]
    /\ t_main' = "T132"
    /\ UNCHANGED <<pool_vars, uninit_vars, mem_vars, body_race,
                   nthreads, nrecords, assign, fault, max_open, t_pc, xct,
                   payload, run_result, payloads, expect_failed, crashed, raced>>

\* Lines 128-140: each task is handed to a worker of its own, where it waits
\* for the start future (line 64); then the start promise releases them all.
RunTest_T140 ==
    /\ t_main = "T132"
    /\ t_pc' = [i \in Tasks |-> "T67"]
    /\ t_main' = "T141"
    /\ UNCHANGED <<pool_vars, uninit_vars, mem_vars, body_race,
                   nthreads, nrecords, assign, fault, max_open, storage, xct,
                   payload, run_result, payloads, expect_failed, crashed, raced>>

\* Lines 141-144: COERCE_ERROR(sessions[i].get_result()) for every session.
RunTest_T141 ==
    /\ ~crashed
    /\ t_main = "T141"
    /\ \A i \in Tasks : run_result[i] # Unset
    /\ IF \A i \in Tasks : run_result[i] = RET_OK
       THEN t_main' = "T153" /\ UNCHANGED crashed
       ELSE crashed' = TRUE /\ UNCHANGED t_main
    /\ UNCHANGED <<pool_vars, uninit_vars, mem_vars, body_race,
                   nthreads, nrecords, assign, fault, max_open, storage, t_pc,
                   xct, payload, run_result, payloads, expect_failed, raced>>

\* uint64_t answers[THREADS], lines 146-150, filled task by task.
RECURSIVE AnswersUpTo(_)
AnswersUpTo(k) ==
    IF k = 0 THEN [r \in Tasks |-> 0]
    ELSE LET a == AnswersUpTo(k - 1) IN
         [a EXCEPT ![assign[k - 1]] = @ + Amount(k - 1)]

Answers == AnswersUpTo(nthreads)

\* Lines 151-153: GetAllRecordsTask reads every record in one transaction.
RunTest_T153 ==
    /\ t_main = "T153"
    /\ payloads' = [r \in Records |-> [id_ |-> storage[r].id_, data_ |-> storage[r].data_]]
    /\ t_main' = "T154"
    /\ UNCHANGED <<pool_vars, uninit_vars, mem_vars, body_race,
                   nthreads, nrecords, assign, fault, max_open, storage, t_pc,
                   xct, payload, run_result, expect_failed, crashed, raced>>

\* Lines 154-157: the two EXPECT_EQs on the first THREADS records.
RunTest_T154 ==
    /\ t_main = "T154"
    /\ expect_failed' = (expect_failed \/
            \E i \in Tasks : payloads[i].id_ # i \/ payloads[i].data_ # Answers[i])
    /\ t_main' = "end"
    /\ UNCHANGED <<pool_vars, uninit_vars, mem_vars, body_race,
                   nthreads, nrecords, assign, fault, max_open, storage, t_pc,
                   xct, payload, run_result, payloads, crashed, raced>>

\* The workload before run_test is entered, for nt tasks assigned by f.
InitXct(nt, nr, f, flt, open, br) ==
    /\ max_open = open
    /\ body_race = br
    /\ nthreads = nt
    /\ nrecords = nr
    /\ assign = f
    /\ fault = flt
    /\ storage = <<>>
    /\ t_main = "T126"
    /\ t_pc = [i \in 0..(nt - 1) |-> "T64"]
    /\ xct = [i \in 0..(nt - 1) |-> InactiveXct]
    /\ payload = [i \in 0..(nt - 1) |-> NoPayload]
    /\ run_result = [i \in 0..(nt - 1) |-> Unset]
    /\ payloads = <<>>
    /\ expect_failed = FALSE
    /\ crashed = FALSE
    /\ raced = FALSE

\* One step of TestTask::run on the worker of task i.
TestTask(i) ==
    \/ TryTransaction_T84(i)
    \/ TryTransaction_T93(i)

\* One step of run_test on the main thread.
RunTest ==
    \/ RunTest_T126
    \/ RunTest_T140
    \/ RunTest_T141
    \/ RunTest_T153
    \/ RunTest_T154

NextXct ==
    \/ RunTest
    \/ \E i \in 0..(THREADS - 1) : TestTask(i)

NextPool ==
    \/ \E w \in Workers : HandleTasks(w)
    \/ \E s \in Sessions : Caller(s)

----------------------------------------------------------------------------
(***************************************************************************)
(* EngineMemory::initialize_once, engine_memory.cpp lines 17-57 (Enn).     *)
(***************************************************************************)

\* Bounds of the options explored: NUMA nodes, threads per node, MB of page
\* pool per node, and the initial grab in units of 128 pages.
MaxGroups == 2
MaxThreadsPerGroup == 2
MaxPoolMb == 2
MaxGrabUnits == 2

\* storage::PAGE_SIZE, in bytes
PAGE_SIZE == 4096

\* ErrorStack values of initialize_once
ERROR_CODE_DEPEDENT_MODULE_UNAVAILABLE_INIT == "dependent_module_unavailable_init"
ERROR_CODE_MEMORY_NUMA_UNAVAILABLE == "numa_unavailable"
ERROR_CODE_MEMORY_PAGE_POOL_TOO_SMALL == "page_pool_too_small"
ERROR_CODE_OUTOFMEMORY == "out_of_memory"

\* x << 20
ShiftLeft20(x) == x * 1048576

\* The initial grabs explored: around the multiples of 128 pages, where the
\* minimal page pool meets a whole number of MB.
GrabChoices ==
    {g \in {k * 128 + d : k \in 0..MaxGrabUnits, d \in {-1, 0, 1}} : g >= 0}

\* What a node's page pool may report as its resolver's begin_ and end_.
ResolverChoices ==
    {[begin_ |-> 1, end_ |-> 8], [begin_ |-> 1, end_ |-> 9], [begin_ |-> 2, end_ |-> 8]}

\* The resolver's base_ of a node: a handle of that node's memory.
BaseOf(node) == 100 + node

\* A default-constructed GlobalPageResolver.
NoResolver == [bases_ |-> <<>>, numa_node_count_ |-> 0, begin_ |-> 0, end_ |-> 0]

\* Lines 28-30: total_threads and minimal_page_pool.
MinimalPagePool(o) ==
    LET total_threads == o.group_count_ * o.thread_count_per_group_ IN
    total_threads * o.private_page_pool_initial_grab_ * PAGE_SIZE

\* The comparison of lines 31-32 with <= in place of <.
PagePoolTooSmall_OrEqual(o) ==
    ShiftLeft20(o.page_pool_size_mb_per_node_ * o.group_count_) <= MinimalPagePool(o)

\* Lines 31-32: (uint64_t(page_pool_size_mb_per_node_) * group_count_ << 20)
\* < minimal_page_pool; the product binds tighter than the shift.
PagePoolTooSmall(o) ==
    ShiftLeft20(o.page_pool_size_mb_per_node_ * o.group_count_) < MinimalPagePool(o)

\* The checks of lines 19-34 with NUMA looked at before the debug module.
StartupCheck_NumaFirst(o) ==
    IF ~o.numa_available THEN ERROR_CODE_MEMORY_NUMA_UNAVAILABLE
    ELSE IF ~o.debug_initialized THEN ERROR_CODE_DEPEDENT_MODULE_UNAVAILABLE_INIT
    ELSE IF PagePoolTooSmall(o) THEN ERROR_CODE_MEMORY_PAGE_POOL_TOO_SMALL
    ELSE RET_OK

\* Lines 19-34: the three checks, in their order; RET_OK if all pass.
StartupCheck(o) ==
    IF ~o.debug_initialized THEN ERROR_CODE_DEPEDENT_MODULE_UNAVAILABLE_INIT
    ELSE IF ~o.numa_available THEN ERROR_CODE_MEMORY_NUMA_UNAVAILABLE
    ELSE IF PagePoolTooSmall(o) THEN ERROR_CODE_MEMORY_PAGE_POOL_TOO_SMALL
    ELSE RET_OK

\* Lines 17-38: the checks; on a failure return it, else enter the loop.
InitializeOnce_E19 ==
    /\ em_pc = "E19"
    /\ LET check == StartupCheck(options) IN
       IF check # RET_OK
       THEN /\ em_result' = check
            /\ em_pc' = "returned"
            /\ UNCHANGED em_locals
       ELSE /\ em_locals' = [node |-> 0, page_offset_begin |-> 0,
                             page_offset_end |-> 0, bases |-> <<>>]
            /\ em_pc' = "E40"
            /\ UNCHANGED em_result
    /\ UNCHANGED <<options, node_memories_, global_page_resolver_,
                   pool_vars, xct_vars, uninit_vars>>

\* Lines 40-53: one pass of the loop over the nodes. The new node memory is
\* pushed before it is initialized; CHECK_ERROR returns its error. The two
\* ASSERT_ND stop the process where assertions are compiled in and are no
\* code at all where they are not.
InitializeOnce_E40 ==
    /\ em_pc = "E40"
    /\ em_locals.node < options.group_count_
    /\ LET node == em_locals.node
           resolver == options.resolvers[node] IN
       /\ node_memories_' = Append(node_memories_, node)
       /\ IF options.failing_node = node
          THEN /\ em_result' = ERROR_CODE_OUTOFMEMORY
               /\ em_pc' = "returned"
               /\ UNCHANGED em_locals
          ELSE IF node = 0
          THEN /\ em_locals' = [node |-> 1,
                                page_offset_begin |-> resolver.begin_,
                                page_offset_end |-> resolver.end_,
                                bases |-> <<BaseOf(node)>>]
               /\ UNCHANGED <<em_pc, em_result>>
          ELSE IF /\ options.assertions
                  /\ \/ em_locals.page_offset_begin # resolver.begin_
                     \/ em_locals.page_offset_end # resolver.end_
          THEN /\ em_pc' = "aborted"
               /\ em_locals' = [em_locals EXCEPT !.bases = Append(@, BaseOf(node))]
               /\ UNCHANGED em_result
          ELSE /\ em_locals' = [em_locals EXCEPT !.node = @ + 1,
                                                 !.bases = Append(@, BaseOf(node))]
               /\ UNCHANGED <<em_pc, em_result>>
    /\ UNCHANGED <<options, global_page_resolver_, pool_vars, xct_vars, uninit_vars>>

\* Lines 54-56: the global page resolver; return RET_OK.
InitializeOnce_E54 ==
    /\ em_pc = "E40"
    /\ em_locals.node >= options.group_count_
    /\ global_page_resolver_' =
            [bases_ |-> em_locals.bases,
             numa_node_count_ |-> options.group_count_,
             begin_ |-> em_locals.page_offset_begin,
             end_ |-> em_locals.page_offset_end]
    /\ em_result' = RET_OK
    /\ em_pc' = "returned"
    /\ UNCHANGED <<options, em_locals, node_memories_, pool_vars, xct_vars,
                   uninit_vars>>

InitializeOnce ==
    \/ InitializeOnce_E19
    \/ InitializeOnce_E40
    \/ InitializeOnce_E54

\* initialize_once is entered with node_memories_ empty (line 24), for any
\* options and environment within the bounds.
InitEngineMemory ==
    /\ options \in
          [debug_initialized : BOOLEAN,
           numa_available : BOOLEAN,
           assertions : BOOLEAN,
           group_count_ : 1..MaxGroups,
           thread_count_per_group_ : 1..MaxThreadsPerGroup,
           page_pool_size_mb_per_node_ : 0..MaxPoolMb,
           private_page_pool_initial_grab_ : GrabChoices,
           resolvers : [0..(MaxGroups - 1) -> ResolverChoices],
           failing_node : -1..(MaxGroups - 1)]
    /\ em_pc = "E19"
    /\ em_locals = <<>>
    /\ em_result = Unset
    /\ node_memories_ = <<>>
    /\ global_page_resolver_ = NoResolver

\* EngineMemory::initialize_once is not running.
NoEngineMemory ==
    /\ options = <<>>
    /\ em_pc = "none"
    /\ em_locals = <<>>
    /\ em_result = Unset
    /\ node_memories_ = <<>>
    /\ global_page_resolver_ = <<>>

\* run_test alone: the workers of its tasks are taken as handed over, and no
\* other caller of the pool exists.
NoCallers ==
    /\ impersonated_ = <<>>
    /\ impersonated_task_ = <<>>
    /\ impersonated_task_result_ = <<>>
    /\ result_state = <<>>
    /\ w_pc = <<>>
    /\ functor = <<>>
    /\ result = <<>>
    /\ c_pc = <<>>
    /\ c_target = <<>>
    /\ session = <<>>
    /\ task_status = <<>>
    /\ published = <<>>
    /\ executed = <<>>
    /\ failures = {}
    /\ raw_thread_ = <<>>
    /\ core_memory_ = <<>>
    /\ exitted_ = <<>>
    /\ u_pc = <<>>
    /\ u_result = <<>>
    /\ u_seen = <<>>

----------------------------------------------------------------------------
\* The handoff between callers and workers; no workload is running.
Init == InitPool /\ InitXct(0, 0, <<>>, {}, 0, {}) /\ NoEngineMemory

Next == NextPool

Spec == Init /\ [][Next]_vars

\* The handoff with the engine's shutdown: uninitialize_once may be invoked
\* on any worker at any time, whatever the callers are doing.
NextShutdown ==
    \/ NextPool
    \/ \E w \in Workers : HandleTasks_L59(w)
    \/ \E w \in 1..NumShutdown : UninitializeOnce(w)

SpecShutdown == Init /\ [][NextShutdown]_vars

\* The same with the scheduling the threads get: the worker threads, the
\* thread in uninitialize_once and a caller blocked in get_result.
FairSpecShutdown ==
    /\ SpecShutdown
    /\ \A w \in Workers : WF_vars(HandleTasks(w) \/ HandleTasks_L59(w))
    /\ \A w \in Workers : WF_vars(UninitializeOnce(w))
    /\ \A s \in Sessions : WF_vars(GetResult(s))

\* The engine's memory being initialized; no worker exists yet.
InitMemory ==
    /\ NoCallers
    /\ InitXct(0, 0, <<>>, {}, 0, {})
    /\ InitEngineMemory

SpecMemory == InitMemory /\ [][InitializeOnce]_vars

\* run_test with up to MaxThreads tasks, any assignment of tasks to records,
\* and at most one task whose storage access fails with a non-race error.
InitFree ==
    /\ NoCallers
    /\ NoEngineMemory
    /\ \E nt \in 1..MaxThreads :
         \E f \in [0..(nt - 1) -> 0..(nt - 1)] :
           \E flt \in {{}} \cup {{i} : i \in 0..(nt - 1)} : InitXct(nt, nt, f, flt, nt, {})

SpecXct == InitFree /\ [][NextXct]_vars

\* The same runs, where moreover get_record and overwrite_record may answer
\* race-abort to the tasks of any set br.
InitRace ==
    /\ NoCallers
    /\ NoEngineMemory
    /\ \E nt \in 1..MaxThreads :
         \E f \in [0..(nt - 1) -> 0..(nt - 1)] :
           \E flt \in {{}} \cup {{i} : i \in 0..(nt - 1)} :
             \E br \in SUBSET (0..(nt - 1)) : InitXct(nt, nt, f, flt, nt, br)

SpecXctRace == InitRace /\ [][NextXct]_vars

\* The same with the scheduling the threads get: the main thread and every
\* worker running a task eventually take the step they can take.
FairSpecXct ==
    /\ SpecXct
    /\ WF_vars(RunTest)
    /\ \A i \in 0..(THREADS - 1) : WF_vars(TestTask(i))

\* The LightConflict and HeavyConflict tests (lines 173-197).
InitLight ==
    /\ NoCallers
    /\ NoEngineMemory
    /\ InitXct(THREADS, RECORDS, [i \in 0..(THREADS - 1) |-> i \div 2], {}, THREADS, {})

InitHeavy ==
    /\ NoCallers
    /\ NoEngineMemory
    /\ InitXct(THREADS, RECORDS, [i \in 0..(THREADS - 1) |-> i \div 5], {}, MaxOpen, {})

SpecLight == InitLight /\ [][NextXct]_vars

SpecHeavy == InitHeavy /\ [][NextXct]_vars

\* The handoff with the scheduling the threads get: a worker thread that can
\* take a step eventually takes one, and a caller blocked in get_result
\* returns once the result is there.
FairSpec ==
    /\ Spec
    /\ \A w \in Workers : WF_vars(HandleTasks(w))
    /\ \A s \in Sessions : WF_vars(GetResult(s))

----------------------------------------------------------------------------
(***************************************************************************)
(* Properties of the handoff.                                              *)
(***************************************************************************)

\* Session s has won the compare-and-set on worker w and w has not yet
\* cleared the flag for it: s is between lines 67 and 73, or its task waits
\* in the inbox, or the worker is handling it (lines 46-52).
Acquired(s, w) ==
    \/ c_pc[s] \in {"L69", "L70", "L73"} /\ c_target[s] = w
    \/ impersonated_task_[w].val = s
    \/ functor[w] = s

IsPrefix(a, b) == Len(a) <= Len(b) /\ SubSeq(b, 1, Len(a)) = a

\* C4: impersonation is mutually exclusive. On every worker at most one
\* session holds the worker between two clears of the flag, so at most one
\* task is published to or running on it, and the worker runs the tasks in
\* the order of their publication, never more than one behind.
C4_MutualExclusion ==
    \A w \in Workers :
        /\ Cardinality({s \in Sessions : Acquired(s, w)}) <= 1
        /\ IsPrefix(executed[w], published[w])
        /\ Len(published[w]) - Len(executed[w]) <= 1

\* C4 witness: one session holds worker w while another, which saw the flag
\* false before, is about to lose the compare-and-set on w, and w has already
\* run an earlier task.
C4_Witness ==
    \E w \in Workers : \E s1, s2 \in Sessions :
        /\ s1 # s2
        /\ Acquired(s1, w)
        /\ c_pc[s2] = "L66_cas" /\ c_target[s2] = w
        /\ Len(executed[w]) >= 1

\* Worker w holds a task not yet consumed: published to its inbox or running.
HoldsTask(w) ==
    \/ impersonated_task_[w].val \in Sessions
    \/ functor[w] # Null /\ w_pc[w] \in {"L46", "L47", "L50"}

\* Worker w holds a result its caller has not read yet.
HoldsUnreadResult(w) ==
    \E s \in Sessions :
        /\ session[s].thread_ = w
        /\ session[s].result_future_ # Null
        /\ result_state[session[s].result_future_] # Unset
        /\ session[s].got = Unset

\* C5 as claimed: the flag is true iff the worker holds an unconsumed task
\* or an unread result.
C5_AsClaimed ==
    \A w \in Workers : impersonated_[w] <=> (HoldsTask(w) \/ HoldsUnreadResult(w))

\* C5 amended: the flag is true iff some session has won the compare-and-set
\* on the worker and the worker has not cleared the flag for that session's
\* task yet; whether the result has been read plays no part.
C5_FlagIffAcquired ==
    \A w \in Workers : impersonated_[w] <=> (\E s \in Sessions : Acquired(s, w))

\* C5 witness: a worker is idle again (flag false) while the result of the
\* task it ran is still unread, and another worker's flag is true with its
\* task not published yet.
C5_Witness ==
    \E w1, w2 \in Workers :
        /\ ~impersonated_[w1] /\ HoldsUnreadResult(w1)
        /\ impersonated_[w2] /\ ~HoldsTask(w2)
        /\ \E s \in Sessions : c_pc[s] = "L73" /\ c_target[s] = w2

\* Caller s is inside ThreadPool::impersonate.
Impersonating(s) == c_pc[s] \in {"start", "L66_load", "L66_cas", "L69", "L70", "L73"}

\* Caller s takes a step of try_impersonate on a worker whose flag is true.
FailingTry(s) ==
    /\ c_pc[s] \in {"L66_load", "L66_cas"}
    /\ impersonated_[c_target[s]]
    /\ <<c_pc[s], c_target[s]>>' # <<c_pc[s], c_target[s]>>

\* C6: impersonate never blocks. A caller inside impersonate can always take
\* its next step; a try_impersonate on a worker whose flag is true fails in
\* that one step and changes neither the flag, the inbox, the outbox nor the
\* session's worker; and having failed on the last worker the caller holds
\* an invalid session with an error cause.
C6_NeverBlocks ==
    /\ [](\A s \in Sessions : Impersonating(s) => ENABLED Caller(s))
    /\ [][\A s \in Sessions : FailingTry(s) =>
            /\ c_pc'[s] \in {"L66_load", "invalid"}
            /\ UNCHANGED <<impersonated_, impersonated_task_,
                           impersonated_task_result_, result_state>>
            /\ session'[s].thread_ = session[s].thread_
            /\ session'[s].result_future_ = session[s].result_future_
            /\ (c_target[s] = NumWorkers =>
                    /\ c_pc'[s] = "invalid"
                    /\ ~session'[s].valid
                    /\ session'[s].invalid_cause_ # RET_OK)]_vars

\* C6 witness: a caller holds an invalid session, bound to no worker, while
\* every worker's flag is true.
C6_Witness ==
    \E s \in Sessions :
        /\ c_pc[s] = "invalid"
        /\ ~session[s].valid /\ session[s].thread_ = Null
        /\ \A w \in Workers : impersonated_[w]

\* C7: the result a session delivers is the status run() returned for the
\* task that session submitted: whenever the session's future is ready it
\* holds that status, and get_result returns it.
C7_ResultFaithful ==
    \A s \in Sessions :
        /\ (session[s].result_future_ # Null
              /\ result_state[session[s].result_future_] # Unset)
           => result_state[session[s].result_future_] = RunTask(s)
        /\ c_pc[s] = "done" => session[s].got = RunTask(s)

\* C7 witness: two sessions used the same worker, their tasks returned
\* different statuses, the second replaced the outbox before the first read
\* its result, and the first has now read its own.
C7_Witness ==
    \E s1, s2 \in Sessions :
        /\ s1 # s2
        /\ session[s1].thread_ = session[s2].thread_
        /\ session[s1].thread_ # Null
        /\ RunTask(s1) # RunTask(s2)
        /\ c_pc[s1] = "done" /\ session[s1].got = RunTask(s1)
        /\ impersonated_task_result_[session[s1].thread_] = session[s2].result_future_
        /\ result_state[session[s2].result_future_] = RunTask(s2)

InSeq(x, q) == \E k \in 1..Len(q) : q[k] = x

\* The task of session s is published and its result is still outstanding.
Outstanding(s) ==
    /\ c_pc[s] = "valid"
    /\ session[s].result_future_ # Null
    /\ result_state[session[s].result_future_] = Unset

\* The worker of session s has run the task of s and its flag is false.
RanAndIdle(s) ==
    /\ session[s].thread_ # Null
    /\ ~impersonated_[session[s].thread_]
    /\ InSeq(s, executed[session[s].thread_])

\* C8: the handoff is live. Once try_impersonate has returned true for a
\* session, its get_result eventually returns; and while the task's result
\* is still outstanding, the worker eventually has run the task and has its
\* flag false again.
C8_HandoffLive ==
    \A s \in Sessions :
        /\ (c_pc[s] = "valid") ~> (c_pc[s] = "done")
        /\ Outstanding(s) ~> RanAndIdle(s)

\* C8 witness: a session has its result, its worker has run the task and is
\* idle again, with nothing in its inbox.
C8_Witness ==
    \E s \in Sessions :
        /\ c_pc[s] = "done"
        /\ RanAndIdle(s)
        /\ w_pc[session[s].thread_] = "L44"
        /\ impersonated_task_[session[s].thread_].val = NoValue

----------------------------------------------------------------------------
(***************************************************************************)
(* Properties of the shutdown of a worker.                                 *)
(***************************************************************************)

\* uninitialize_once was invoked on w while a published task of w had not
\* been run yet (it waited in the inbox or had just been taken from it).
InFlightAtShutdown(w) == u_seen[w].pub > u_seen[w].exe /\ u_seen[w].pub >= 1

\* Session s has won the compare-and-set on worker w at some time.
EverAcquired(s, w) ==
    c_target[s] = w /\ c_pc[s] \in {"L69", "L70", "L73", "thrown", "valid", "done"}

\* The result of the task of session s is in the outbox installed for s.
ResultDelivered(s) ==
    /\ session[s].result_future_ # Null
    /\ result_state[session[s].result_future_] # Unset

\* C11 as claimed: shutdown waits for in-flight work. When uninitialize_once
\* is invoked on a worker holding a published task, the shutdown signal is
\* delivered (line 29 does not fail), the worker leaves its loop only after
\* it has run that task and written its result, and uninitialize_once
\* returns only after the worker thread has ended.
C11_AsClaimed ==
    \A w \in Workers : InFlightAtShutdown(w) =>
        LET s == published[w][u_seen[w].pub] IN
        /\ u_pc[w] # "thrown"
        /\ w_pc[w] \in {"L59", "exited"} =>
                (InSeq(s, executed[w]) /\ ResultDelivered(s))
        /\ u_pc[w] = "returned" => w_pc[w] = "exited"

\* C12 as claimed: uninitialize_once is safe against a concurrent
\* impersonation. For every session that wins the compare-and-set on a
\* worker and had not published its task when uninitialize_once was invoked
\* on that worker: neither write to the inbox fails (the inbox is not
\* written by both), and the worker leaves its loop only after the
\* session's result is delivered.
C12_AsClaimed ==
    \A w \in Workers : \A s \in Sessions :
        (/\ u_pc[w] # "none"
         /\ EverAcquired(s, w)
         /\ ~InSeq(s, SubSeq(published[w], 1, u_seen[w].pub)))
        => /\ c_pc[s] # "thrown"
           /\ u_pc[w] # "thrown"
           /\ w_pc[w] \in {"L59", "exited"} => ResultDelivered(s)

\* No session has ever won the compare-and-set on worker w.
NeverSubmitted(w) == \A s \in Sessions : ~EverAcquired(s, w)

\* C13: shutdown during idle. The exited flag is true only when the worker
\* thread has left its loop for good. When uninitialize_once has returned
\* for a worker no task was ever submitted to, it returned ok, the worker
\* has run no task, has set its exited flag and has ended, and the thread
\* handle and the core-memory handle are cleared. And an uninitialize_once
\* invoked on such a worker does return (unless a task is submitted after
\* all).
C13_ShutdownIdle ==
    /\ [](\A w \in Workers : exitted_[w] => w_pc[w] = "exited")
    /\ [](\A w \in Workers : (u_pc[w] = "returned" /\ NeverSubmitted(w)) =>
            /\ u_result[w] = RET_OK
            /\ w_pc[w] = "exited" /\ exitted_[w]
            /\ executed[w] = <<>>
            /\ ~raw_thread_[w] /\ ~core_memory_[w])
    /\ \A w \in Workers :
            (u_pc[w] # "none" /\ NeverSubmitted(w))
                ~> (u_pc[w] = "returned" \/ ~NeverSubmitted(w))

\* C13 witness: uninitialize_once has returned ok for a worker to which no
\* task was ever submitted; the worker has ended without running a task.
C13_Witness ==
    \E w \in Workers :
        /\ u_pc[w] = "returned" /\ u_result[w] = RET_OK
        /\ NeverSubmitted(w)
        /\ exitted_[w] /\ w_pc[w] = "exited"
        /\ executed[w] = <<>> /\ published[w] = <<>>
        /\ ~raw_thread_[w] /\ ~core_memory_[w]

\* Every task published to worker w has its result in its session's outbox.
AllDelivered(w) == \A k \in 1..Len(published[w]) : ResultDelivered(published[w][k])

\* The order of the worker's steps for one task: the task is run after the
\* inbox has been replaced for it; a result is written only by the worker at
\* line 51, for a task it has run, into that task's outbox; and the flag is
\* cleared only when the result of the last task run is in its outbox.
StepsInOrder ==
    \A w \in Workers :
        /\ executed'[w] # executed[w] =>
                impersonated_task_[w].gen = Len(executed'[w])
        /\ (impersonated_[w] /\ ~impersonated_'[w]) =>
                /\ Len(executed[w]) >= 1
                /\ ResultDelivered(executed[w][Len(executed[w])])
        /\ \A s \in Sessions :
                (session[s].thread_ = w /\ ~ResultDelivered(s) /\ ResultDelivered(s)') =>
                    /\ w_pc[w] = "L51" /\ functor[w] = s
                    /\ InSeq(s, executed[w])

\* C18 as claimed, the state it concludes: whenever the flag of a live
\* worker is false, its inbox is a fresh unsatisfied slot and the result of
\* every task accepted before is in its session's outbox.
C18_AsClaimed ==
    \A w \in Workers : (~impersonated_[w] /\ w_pc[w] # "exited") =>
        /\ impersonated_task_[w].val = NoValue
        /\ AllDelivered(w)

\* C18 amended: the steps are in order, and whenever the flag of a live
\* worker is false, its inbox is a fresh unsatisfied slot or holds nothing
\* but the null signal of uninitialize_once, and the result of every task
\* accepted before is in its session's outbox.
C18_StepsOrdered ==
    /\ [][StepsInOrder]_vars
    /\ [](\A w \in Workers : (~impersonated_[w] /\ w_pc[w] # "exited") =>
            /\ impersonated_task_[w].val \in {NoValue, Null}
            /\ AllDelivered(w))

\* C18 witness: a live worker has run a task and cleared its flag; its inbox
\* is the fresh one installed for the next round, and the task's result is
\* in the outbox, not yet read by its session.
C18_Witness ==
    \E w \in Workers : \E s \in Sessions :
        /\ ~impersonated_[w] /\ w_pc[w] = "L44"
        /\ executed[w] = <<s>>
        /\ impersonated_task_[w] = [gen |-> 1, val |-> NoValue]
        /\ ResultDelivered(s) /\ c_pc[s] = "valid"

\* C19: assert(impersonated_) in handle_tasks never fails. From the moment
\* the worker has taken a non-null task from its inbox until it clears the
\* flag itself at line 52 the flag is true, and no step other than the
\* worker's line 52 ever changes the flag from true to false.
C19_AssertHolds ==
    /\ []("assert_L48" \notin failures)
    /\ [](\A w \in Workers : functor[w] \in Sessions => impersonated_[w])
    /\ [][\A w \in Workers : (impersonated_[w] /\ ~impersonated_'[w]) =>
            (w_pc[w] = "L52" /\ w_pc'[w] = "L44")]_vars

\* C19 witness: a worker that has run a task before is past the assertion
\* with the next task, its flag true, while another caller that saw the flag
\* false is about to try the compare-and-set on it.
C19_Witness ==
    \E w \in Workers : \E s \in Sessions :
        /\ w_pc[w] = "L50" /\ functor[w] \in Sessions /\ impersonated_[w]
        /\ Len(executed[w]) >= 1
        /\ c_pc[s] = "L66_cas" /\ c_target[s] = w
        /\ "assert_L48" \notin failures

\* Caller s is between the compare-and-set and the publication on worker w.
Publishing(s, w) == c_pc[s] \in {"L69", "L70", "L73"} /\ c_target[s] = w

\* The outboxes handed to sessions so far.
BoundOutboxes == {session[s].result_future_ : s \in Sessions} \ {Null}

\* A step uses the single-shot slots of worker w once each: the inbox takes
\* a task only while empty; it is replaced only when it holds a task, the
\* worker has taken that task, and no caller is publishing into it; a result
\* goes only into an empty outbox; and the outbox is replaced only by one
\* never used before, the outbox before it holding a result unless it is the
\* one the worker was constructed with.
SingleShot(w) ==
    /\ impersonated_task_'[w] # impersonated_task_[w] =>
          \/ /\ impersonated_task_'[w].gen = impersonated_task_[w].gen
             /\ impersonated_task_[w].val = NoValue
             /\ impersonated_task_'[w].val \in Sessions
          \/ /\ impersonated_task_'[w] = [gen |-> impersonated_task_[w].gen + 1,
                                          val |-> NoValue]
             /\ impersonated_task_[w].val \in Sessions
             /\ functor[w] = impersonated_task_[w].val
             /\ \A s \in Sessions : ~Publishing(s, w)
    /\ impersonated_task_result_'[w] # impersonated_task_result_[w] =>
          /\ impersonated_task_result_'[w] \notin BoundOutboxes
          /\ \A v \in Workers : impersonated_task_result_[v] # impersonated_task_result_'[w]
          /\ result_state[impersonated_task_result_'[w]] = Unset
          /\ \/ impersonated_task_result_[w] = w
             \/ result_state[impersonated_task_result_[w]] # Unset

\* C20: single-shot slots are never reused (no shutdown). No set_value ever
\* meets a slot that already holds a value; every step uses the slots once
\* each; a slot's value, once set, never changes; and the sessions' outboxes
\* are pairwise distinct.
C20_SingleShot ==
    /\ [](failures \cap {"throw_L51", "throw_L73"} = {})
    /\ [](\A s1, s2 \in Sessions :
            (s1 # s2 /\ session[s1].result_future_ # Null) =>
                session[s1].result_future_ # session[s2].result_future_)
    /\ [][\A w \in Workers : SingleShot(w)]_vars
    /\ [][\A r \in ResultSlots :
            result_state[r] # Unset => result_state'[r] = result_state[r]]_vars

\* C20 witness: a worker has served two tasks, each through an inbox and an
\* outbox of its own; both results are in their outboxes, the third inbox
\* is empty and nothing was thrown.
C20_Witness ==
    \E w \in Workers : \E s1, s2 \in Sessions :
        /\ executed[w] = <<s1, s2>>
        /\ impersonated_task_[w] = [gen |-> 2, val |-> NoValue]
        /\ ResultDelivered(s1) /\ ResultDelivered(s2)
        /\ session[s1].result_future_ # session[s2].result_future_
        /\ failures = {}

----------------------------------------------------------------------------
(***************************************************************************)
(* Properties of EngineMemory::initialize_once.                            *)
(***************************************************************************)

\* initialize_once is past its startup checks.
Checked == em_pc # "E19"

\* The checks before the pool size pass.
Usable == options.debug_initialized /\ options.numa_available

\* group_count x thread_count_per_group x private_initial_grab x page_size
MinimalBytes ==
    options.group_count_ * options.thread_count_per_group_
        * options.private_page_pool_initial_grab_ * 4096

\* The page pool of all nodes in bytes, the option being in MB per node.
PoolBytes == options.page_pool_size_mb_per_node_ * options.group_count_ * 1048576

TooSmallReturned == em_result = ERROR_CODE_MEMORY_PAGE_POOL_TOO_SMALL

\* C14 as claimed: with debugging initialized and NUMA available, the
\* initialization fails with page-pool-too-small exactly when the configured
\* page pool size per node, taken as a number of bytes, times group_count is
\* below the minimal page pool.
C14_AsClaimed ==
    (Checked /\ Usable) =>
        (TooSmallReturned <=>
            options.page_pool_size_mb_per_node_ * options.group_count_ < MinimalBytes)

\* C14 amended: the page pool size is configured in MB per node. With
\* debugging initialized and NUMA available, the initialization fails with
\* page-pool-too-small exactly when size_mb x group_count x 2^20 is below
\* the minimal page pool; at equality it passes the check; and the nearest
\* smaller pool, one MB less per node, is below the minimum.
C14_PoolBoundary ==
    (Checked /\ Usable) =>
        /\ TooSmallReturned <=> PoolBytes < MinimalBytes
        /\ PoolBytes = MinimalBytes => ~TooSmallReturned
        /\ (PoolBytes = MinimalBytes /\ options.page_pool_size_mb_per_node_ >= 1) =>
                (options.page_pool_size_mb_per_node_ - 1) * options.group_count_ * 1048576
                    < MinimalBytes

\* C14 witness: a pool of exactly the minimal size, not empty, has passed
\* the check and the initialization has returned ok.
C14_Witness ==
    /\ Usable
    /\ PoolBytes = MinimalBytes /\ MinimalBytes > 0
    /\ em_pc = "returned" /\ em_result = RET_OK

\* The nodes whose memory has been constructed and initialized.
InitializedNodes == 0..(options.group_count_ - 1)

\* C15 as claimed: whenever the initialization returns ok, every node's
\* resolver has the begin and end of node 0's and the global page resolver
\* carries that range; nodes with different ranges never end in ok.
C15_AsClaimed ==
    (em_pc = "returned" /\ em_result = RET_OK) =>
        /\ \A node \in InitializedNodes :
              options.resolvers[node] = options.resolvers[0]
        /\ global_page_resolver_.begin_ = options.resolvers[0].begin_
        /\ global_page_resolver_.end_ = options.resolvers[0].end_

\* C17: the startup checks come in a fixed order and the first failing one
\* decides: the debug module not initialized gives
\* dependent-module-unavailable-init whatever the rest; else NUMA
\* unavailable gives numa-unavailable whatever the pool size; else a pool
\* below the minimum gives page-pool-too-small; and with any of the three
\* no node memory exists and the global page resolver is as it was.
C17_CheckOrder ==
    Checked =>
        /\ ~options.debug_initialized =>
              em_result = ERROR_CODE_DEPEDENT_MODULE_UNAVAILABLE_INIT
        /\ (options.debug_initialized /\ ~options.numa_available) =>
              em_result = ERROR_CODE_MEMORY_NUMA_UNAVAILABLE
        /\ (Usable /\ PoolBytes < MinimalBytes) => TooSmallReturned
        /\ em_result \in {ERROR_CODE_DEPEDENT_MODULE_UNAVAILABLE_INIT,
                          ERROR_CODE_MEMORY_NUMA_UNAVAILABLE,
                          ERROR_CODE_MEMORY_PAGE_POOL_TOO_SMALL} =>
              /\ em_pc = "returned"
              /\ node_memories_ = <<>>
              /\ global_page_resolver_ = NoResolver

\* C17 witness: with the debug module not initialized, NUMA unavailable and
\* the pool too small all at once, the initialization has returned
\* dependent-module-unavailable-init and has built nothing.
C17_Witness ==
    /\ ~options.debug_initialized /\ ~options.numa_available
    /\ PoolBytes < MinimalBytes
    /\ em_pc = "returned"
    /\ em_result = ERROR_CODE_DEPEDENT_MODULE_UNAVAILABLE_INIT
    /\ node_memories_ = <<>> /\ global_page_resolver_ = NoResolver

----------------------------------------------------------------------------
(***************************************************************************)
(* Properties of the commit-conflict workload.                             *)
(***************************************************************************)

\* C16: the task code respects the worker's transaction state machine.
\* Whenever a pass of the retry loop is about to call begin_xct, after a
\* race-abort of get_record, overwrite_record or precommit_xct too, the
\* worker's transaction is inactive; a transaction is active only inside
\* try_transaction, or left behind by the fatal exit of COERCE_ERROR; and
\* neither the assertion of activate_xct nor that of deactivate_xct has
\* failed.
C16_XctStateMachine ==
    \A i \in Tasks :
        /\ ~xct[i].assert_failed
        /\ t_pc[i] = "T67" => ~xct[i].active
        /\ xct[i].active => t_pc[i] \in {"T93", "aborted"}

\* C16 witness: a task whose get_record or overwrite_record may answer
\* race-abort has committed after a race-abort and a later commit of its
\* record by another task, while a third transaction is active.
C16_Witness ==
    \E i, j \in Tasks :
        /\ i \in body_race /\ raced
        /\ run_result[i] = RET_OK /\ ~xct[i].active
        /\ storage[assign[i]].version > 2
        /\ j # i /\ xct[j].active /\ ~xct[j].assert_failed

RECURSIVE SumAmounts(_)
SumAmounts(S) ==
    IF S = {} THEN 0
    ELSE LET i == CHOOSE i \in S : TRUE IN Amount(i) + SumAmounts(S \ {i})

\* The tasks run_test assigns to record r.
AssignedTo(r) == {i \in Tasks : assign[i] = r}

\* C1: no increment is lost or applied twice. Once every session has returned
\* ok, every record holds id_ = r and data_ = the sum of the amounts of the
\* tasks assigned to it, GetAllRecordsTask reads exactly that, and the
\* test's EXPECT_EQs hold.
C1_NoLostUpdate ==
    /\ t_main \in {"T153", "T154", "end"} =>
          \A r \in Records :
              /\ storage[r].id_ = r
              /\ storage[r].data_ = SumAmounts(AssignedTo(r))
    /\ t_main \in {"T154", "end"} =>
          \A r \in Records :
              payloads[r] = [id_ |-> r, data_ |-> SumAmounts(AssignedTo(r))]
    /\ t_main = "end" => ~expect_failed

\* C1 witness: a run of MaxThreads tasks, two or more of them on one record,
\* has ended after some precommit answered race-abort, and that record was
\* read with the full sum.
C1_Witness ==
    /\ t_main = "end"
    /\ nthreads = MaxThreads
    /\ raced
    /\ \E r \in Records :
          /\ Cardinality(AssignedTo(r)) >= 2
          /\ payloads[r].data_ = SumAmounts(AssignedTo(r))

LightExpected == <<28, 108, 188, 268, 348, 0, 0, 0, 0, 0>>
LightClaimed == <<28, 112, 192, 272, 352, 0, 0, 0, 0, 0>>

\* C2 as claimed: LightConflict ends with data_ = 28, 112, 192, 272, 352 in
\* records 0..4 and 0 in records 5..9.
C2_AsClaimed ==
    t_main \in {"T154", "end"} =>
        \A r \in Records : payloads[r].data_ = LightClaimed[r + 1]

\* C2 amended: LightConflict ends with data_ = 28, 108, 188, 268, 348 in
\* records 0..4 and 0 in records 5..9.
C2_LightFinal ==
    t_main \in {"T154", "end"} =>
        \A r \in Records : payloads[r].data_ = LightExpected[r + 1]

\* C2 witness: LightConflict has ended, after a race-abort, with the ten
\* records read and every EXPECT_EQ passed.
C2_Witness ==
    /\ t_main = "end"
    /\ nthreads = THREADS /\ assign[9] = 4
    /\ raced
    /\ ~expect_failed
    /\ payloads[4].data_ = 348

HeavyExpected == <<220, 720, 0, 0, 0, 0, 0, 0, 0, 0>>
HeavyClaimed == <<60, 360, 0, 0, 0, 0, 0, 0, 0, 0>>

PassEnds(i) == i \in Tasks /\ t_pc[i] \in {"T67", "T93"} /\ t_pc'[i] # t_pc[i]

\* C9: the retry driver discriminates by error kind only. run() never
\* returns race-abort; a pass whose precommit answers race-abort (the read
\* set no longer validates) is followed by another pass, and by nothing
\* else; a pass that commits ends run() with ok; a pass that meets another
\* error ends in the fatal exit, without a retry and without a result.
C9_OnlyRaceRetried ==
    /\ [](\A i \in Tasks : run_result[i] # RACE_ABORT)
    /\ [][\A i \in 0..(THREADS - 1) : PassEnds(i) =>
            /\ (t_pc[i] = "T93" /\ ~Validates(xct[i])) <=>
                    (t_pc'[i] = "T67" /\ run_result'[i] = Unset)
            /\ (t_pc[i] = "T93" /\ Validates(xct[i])) <=>
                    (t_pc'[i] = "returned" /\ run_result'[i] = RET_OK)
            /\ (t_pc[i] = "T67" /\ i \in fault) <=>
                    (t_pc'[i] = "aborted" /\ crashed' /\ run_result'[i] = Unset)
            /\ (t_pc[i] = "T67" /\ i \notin fault) <=> t_pc'[i] = "T93"]_vars

\* C9 witness: one task has returned ok after a race-abort was retried, and
\* another task's non-race error has ended the run in the fatal exit.
C9_Witness ==
    /\ raced
    /\ crashed
    /\ \E i, j \in Tasks :
          /\ run_result[i] = RET_OK
          /\ storage[assign[i]].version > 2
          /\ t_pc[j] = "aborted" /\ run_result[j] = Unset

AllReturnedOk == \A i \in Tasks : run_result[i] = RET_OK

====
